---- MODULE Spec2Model ----
(***************************************************************************)
(* Titantron: the analysis job poller of the match-detection components.   *)
(*                                                                         *)
(* The model follows DetectionFilmstrip.svelte; the detect page and the    *)
(* two waveform components carry the same startPolling / stopPolling /     *)
(* handleStartAnalysis / handleClear / onMount / onDestroy code.           *)
(*                                                                         *)
(* JavaScript runs one handler at a time, so every action below is one run *)
(* of a handler from an event (click, timer tick, promise settlement) to   *)
(* its next await.  An async handler is split at each await: the request   *)
(* it awaits sits in `pending` until the network settles it, in any order. *)
(* The analysis service is an external collaborator that other views and   *)
(* tabs drive as well, so a status response may carry any status.          *)
(***************************************************************************)
EXTENDS Naturals, FiniteSets, Sequences, Bags, TLC

\* ---------------------------------------------------------------- bounds
\* handleStartAnalysis invocations explored in one behaviour
MaxStarts == 1
\* interval callbacks explored in one behaviour
MaxTicks == 2
\* handleClear invocations explored in one behaviour
MaxClears == 1
\* distinct AnalysisResults payloads the service can return
MaxResultSets == 1

\* ---------------------------------------------------------------- values
Running == {"running_visual", "running_audio"}
Statuses == {"none", "completed", "failed"} \cup Running
Phases == {"both", "visual", "audio"}
ResultSets == 1..MaxResultSets
\* `null` of results and of pollInterval (timer ids of setInterval are > 0)
NULL == 0

VARIABLES
    status,           \* status.status                       ($state)
    results,          \* results: NULL or a fetched payload   ($state)
    pollInterval,     \* the pollInterval variable: NULL or a timer id
    showAnalysisMenu, \* showAnalysisMenu                    ($state)
    timers,           \* interval timers alive in the browser
    nextTimer,        \* id the next setInterval call returns
    pending,          \* requests awaiting settlement
    mounted,          \* onMount has run
    destroyed,        \* onDestroy has run
    starts,           \* handleStartAnalysis invocations so far
    ticks,            \* interval callbacks so far
    clears,           \* handleClear invocations so far
    runStarted,       \* a start request has been acknowledged
    resultsCalls,     \* getAnalysisResults calls of poll ticks since the last acknowledged start
    cleared,          \* clear requests that succeeded since the last start was requested or acknowledged
    pollFailed,       \* poll ticks that threw since the last start was requested or acknowledged
    \* --- DetectionList.svelte
    detections,       \* the detections prop (merged, sorted by timestamp_ticks)
    showTypes,        \* showTypes: type -> visible                ($state)
    editingIdx,       \* editingIdx: NULL or a row of filteredDetections ($state)
    editTitle,        \* editTitle                                 ($state)
    lastAccept,       \* the onAcceptChapter call of the last step, if it made one
    draftOf,          \* the detection of the row whose draft was opened last
    \* --- the pages' chapter list and the chapter store behind the API
    page,             \* which route is open: "player" or "detect"
    store,            \* the server's chapters of the video, in creation order
    chapters,         \* chapters: the list as the API returned it    ($state)
    accepts,          \* the create-then-reload flows started so far, with their progress
    \* --- timeline surfaces: DetectionTimeline, the waveforms, the filmstrip markers
    durationTicks,    \* durationTicks prop
    laneWidth,        \* timelineWidth / waveformWidth / containerWidth, in px
    trickplay,        \* trickplay prop: thumbnail_count and interval (ms)
    scrollLeft,       \* scrollLeft of the scroll container
    currentTimeTicks, \* currentTimeTicks prop
    selectedDetection,\* filmstrip: the detection whose popover is open, if any
    event,            \* the pointer event handled by the last step and what it called
    \* --- waveform: the spectrum downsampler
    spectrum,         \* results.audio_spectrum: points (t, music), in time order
    durationSecs,     \* durationSecs = durationTicks / 10_000_000
    targetHalves,     \* waveformWidth * 2 (the target point count), in halves of a point
    downsampled,      \* downsampled: the values of the points drawn          ($derived)
    \* --- zoom controls of the timeline, the filmstrips and the scrolling waveform
    view,             \* which component is shown
    sizes,            \* thumbnail_count, the displayed thumbnail width, the container width
    zoomLevel,        \* zoomLevel                                           ($state)
    totalWidth,       \* timelineWidth / filmstripWidth / waveformWidth       ($derived)
    \* --- DetectionTimeline: the chapter lane
    laneChapters,     \* the chapters prop, as the host passes it
    laneSegments,     \* per chapter of the lane, the tick its segment is drawn to
    \* --- ratingColor
    rating,           \* the rating rendered last, in tenths
    colour,           \* the colour ratingColor returned for it
    \* --- DetectionFilmstrip and the player page's overlay of its detections
    fsAwait,          \* the request the filmstrip awaits ("unmounted" before onMount)
    fsStatus,         \* status.status of the filmstrip
    fsResults,        \* results of the filmstrip: <<>> or the payload fetched last
    fsSelected,       \* selectedDetection of the filmstrip: <<>> or the detection
    fsFetches,        \* getAnalysisResults responses received so far
    fsAccepted,       \* the detections passed to onAcceptChapter so far
    hostDetections    \* detections of the player page                        ($state)

pollerVars == <<status, results, pollInterval, showAnalysisMenu, timers, nextTimer,
                pending, mounted, destroyed, starts, ticks, clears,
                runStarted, resultsCalls, cleared, pollFailed>>

listVars == <<detections, showTypes, editingIdx, editTitle, lastAccept, draftOf>>

chapterVars == <<page, store, chapters, accepts>>

timelineVars == <<durationTicks, laneWidth, trickplay, scrollLeft, currentTimeTicks,
                  selectedDetection, event>>

waveVars == <<spectrum, durationSecs, targetHalves, downsampled>>

zoomVars == <<view, sizes, zoomLevel, totalWidth>>

laneVars == <<laneChapters, laneSegments>>

ratingVars == <<rating, colour>>

overlayVars ==
    <<fsAwait, fsStatus, fsResults, fsSelected, fsFetches, fsAccepted, hostDetections>>

vars == <<pollerVars, listVars, chapterVars, timelineVars,
          waveVars, zoomVars, laneVars, ratingVars, overlayVars>>

\* Each specification below exercises one component; a step of one component
\* leaves the state of the others alone.
inPoller ==
    UNCHANGED <<listVars, chapterVars, timelineVars,
                waveVars, zoomVars, laneVars, ratingVars, overlayVars>>
inList ==
    UNCHANGED <<pollerVars, chapterVars, timelineVars,
                waveVars, zoomVars, laneVars, ratingVars, overlayVars>>
inChapters ==
    UNCHANGED <<pollerVars, listVars, timelineVars,
                waveVars, zoomVars, laneVars, ratingVars, overlayVars>>
inTimeline ==
    UNCHANGED <<pollerVars, listVars, chapterVars,
                waveVars, zoomVars, laneVars, ratingVars, overlayVars>>
inWave ==
    UNCHANGED <<pollerVars, listVars, chapterVars, timelineVars,
                zoomVars, laneVars, ratingVars, overlayVars>>
inZoom ==
    UNCHANGED <<pollerVars, listVars, chapterVars, timelineVars,
                waveVars, laneVars, ratingVars, overlayVars>>
inLane ==
    UNCHANGED <<pollerVars, listVars, chapterVars, timelineVars,
                waveVars, zoomVars, ratingVars, overlayVars>>
inRating ==
    UNCHANGED <<pollerVars, listVars, chapterVars, timelineVars,
                waveVars, zoomVars, laneVars, overlayVars>>
inOverlay ==
    UNCHANGED <<pollerVars, listVars, chapterVars, timelineVars,
                waveVars, zoomVars, laneVars, ratingVars>>

\* a request in flight: its kind, and what its continuation closes over (the
\* display label chosen from `phase` for a start, the firing timer for a tick).
\* Requests of one kind and argument are interchangeable, so `pending` is a bag.
Req(kind, arg) == [kind |-> kind, arg |-> arg]

Sent(r) == pending (+) SetToBag({r})
Settled(r) == pending (-) SetToBag({r})
Replaced(r, q) == (pending (-) SetToBag({r})) (+) SetToBag({q})
InFlight == BagToSet(pending)

\* phase === 'audio' ? 'running_audio' : 'running_visual'
StartLabel(phase) == IF phase = "audio" THEN "running_audio" ELSE "running_visual"

\* ------------------------------------------------- startPolling / stopPolling
\* startPolling without its `if (pollInterval) return;` line
startPolling_unguarded ==
    /\ pollInterval' = nextTimer
    /\ timers' = timers \cup {nextTimer}
    /\ nextTimer' = nextTimer + 1

\* function startPolling(): if (pollInterval) return; pollInterval = setInterval(...)
startPolling ==
    IF pollInterval # NULL
    THEN UNCHANGED <<pollInterval, timers, nextTimer>>
    ELSE /\ pollInterval' = nextTimer
         /\ timers' = timers \cup {nextTimer}
         /\ nextTimer' = nextTimer + 1

\* function stopPolling(): if (pollInterval) { clearInterval(pollInterval); pollInterval = null }
stopPolling ==
    IF pollInterval # NULL
    THEN /\ timers' = timers \ {pollInterval}
         /\ pollInterval' = NULL
         /\ UNCHANGED nextTimer
    ELSE UNCHANGED <<pollInterval, timers, nextTimer>>

keepPolling == UNCHANGED <<pollInterval, timers, nextTimer>>

\* ------------------------------------------------------------ template gates
\* the start entries are rendered inside {#if showAnalysisMenu} of the
\* none, completed and failed header branches
StartVisible == status \in {"none", "completed", "failed"} /\ showAnalysisMenu

\* the menu button exists in the none, completed and failed header branches
MenuButtonVisible == status \in {"none", "completed", "failed"}

\* the Clear button moved out of the {:else if status.status === 'completed'} branch
ClearVisible_everywhere == TRUE

\* the Clear button is rendered in the completed header branch only
ClearVisible == status = "completed"

Alive == mounted /\ ~destroyed

\* ------------------------------------------------ state of the other components
\* const allTypes = ['scene_change', 'dark_frame', 'graphics_change', 'bell', 'music_start']
allTypes == {"scene_change", "dark_frame", "graphics_change", "bell", "music_start"}

\* DetectionList as constructed: every type shown, no draft (rows are numbered
\* from 1 here, so NULL = 0 is no row)
ListConstructed ==
    /\ showTypes = [t \in allTypes |-> TRUE]
    /\ editingIdx = NULL
    /\ editTitle = ""
    /\ lastAccept = <<>>
    /\ draftOf = <<>>

\* the list is not rendered (no completed run with results)
ListIdle == detections = <<>> /\ ListConstructed

\* no page has loaded chapters
ChaptersIdle == page = "detect" /\ store = <<>> /\ chapters = <<>> /\ accepts = <<>>

\* no pointer event has been handled
NoEvent == [kind |-> "none", o |-> 0, s |-> 0, x |-> 0, calls |-> <<>>, thumb |-> <<>>]

\* no timeline surface is rendered
TimelineIdle ==
    /\ durationTicks = 0 /\ laneWidth = 0
    /\ trickplay = [thumbnail_count |-> 0, interval |-> 0]
    /\ scrollLeft = 0 /\ currentTimeTicks = 0
    /\ selectedDetection = <<>>
    /\ event = NoEvent

\* no waveform is rendered
WaveIdle == spectrum = <<>> /\ durationSecs = 0 /\ targetHalves = 0 /\ downsampled = <<>>

\* no zoomable component is rendered
ZoomIdle ==
    /\ view = "none"
    /\ sizes = [thumbnail_count |-> 0, thumbDisplayW |-> 0, outerWidth |-> 0]
    /\ zoomLevel = 1 /\ totalWidth = 0

\* no chapter lane is rendered
LaneIdle == laneChapters = <<>> /\ laneSegments = <<>>

\* no rating is rendered
RatingIdle == rating = 0 /\ colour = ""

\* no filmstrip is mounted on the player page
OverlayIdle ==
    /\ fsAwait = "unmounted"
    /\ fsStatus = "none" /\ fsResults = <<>> /\ fsSelected = <<>>
    /\ fsFetches = 0 /\ fsAccepted = <<>> /\ hostDetections = <<>>

WidgetsIdle == WaveIdle /\ ZoomIdle /\ LaneIdle /\ RatingIdle /\ OverlayIdle

PollerInit ==
    /\ status = "none"
    /\ results = NULL
    /\ pollInterval = NULL
    /\ showAnalysisMenu = FALSE
    /\ timers = {}
    /\ nextTimer = 1
    /\ pending = EmptyBag
    /\ mounted = FALSE
    /\ destroyed = FALSE
    /\ starts = 0
    /\ ticks = 0
    /\ clears = 0
    /\ runStarted = FALSE
    /\ resultsCalls = 0
    /\ cleared = 0
    /\ pollFailed = 0

Init == PollerInit /\ ListIdle /\ ChaptersIdle /\ TimelineIdle /\ WidgetsIdle

\* the four components above at rest, for the specifications of the widgets
CoreIdle == PollerInit /\ ListIdle /\ ChaptersIdle /\ TimelineIdle

\* ------------------------------------------------------------------ onMount
\* onMount(async () => { try { status = await getAnalysisStatus(videoId); ...
onMount ==
    /\ ~mounted
    /\ mounted' = TRUE
    /\ pending' = Sent(Req("mountStatus", NULL))
    /\ keepPolling
    /\ UNCHANGED <<status, results, showAnalysisMenu, destroyed, starts,
                   runStarted, resultsCalls, cleared, pollFailed,
                   ticks, clears>>
    /\ inPoller

\* variant of the continuation below that starts polling for every status but completed
onMount_statusResolved_pollsAnyway(r, s) ==
    /\ r \in InFlight /\ r.kind = "mountStatus"
    /\ status' = s
    /\ IF s = "completed"
       THEN /\ pending' = Replaced(r, Req("mountResults", NULL))
            /\ keepPolling
       ELSE /\ pending' = Settled(r)
            /\ startPolling
    /\ UNCHANGED <<results, showAnalysisMenu, mounted, destroyed, starts,
                   runStarted, resultsCalls, cleared, pollFailed,
                   ticks, clears>>
    /\ inPoller

\* ... status = <response>; if completed: results = await getAnalysisResults;
\*     else if startsWith('running'): startPolling()
onMount_statusResolved(r, s) ==
    /\ r \in InFlight /\ r.kind = "mountStatus"
    /\ status' = s
    /\ IF s = "completed"
       THEN /\ pending' = Replaced(r, Req("mountResults", NULL))
            /\ keepPolling
       ELSE /\ pending' = Settled(r)
            /\ IF s \in Running THEN startPolling ELSE keepPolling
    /\ UNCHANGED <<results, showAnalysisMenu, mounted, destroyed, starts,
                   runStarted, resultsCalls, cleared, pollFailed,
                   ticks, clears>>
    /\ inPoller

\* catch { /* No existing analysis */ }
onMount_statusRejected(r) ==
    /\ r \in InFlight /\ r.kind = "mountStatus"
    /\ pending' = Settled(r)
    /\ keepPolling
    /\ UNCHANGED <<status, results, showAnalysisMenu, mounted, destroyed,
                   starts, runStarted, resultsCalls, cleared, pollFailed,
                   ticks, clears>>
    /\ inPoller

\* results = <response of getAnalysisResults>
onMount_resultsResolved(r, res) ==
    /\ r \in InFlight /\ r.kind = "mountResults"
    /\ pending' = Settled(r)
    /\ results' = res
    /\ keepPolling
    /\ UNCHANGED <<status, showAnalysisMenu, mounted, destroyed, starts,
                   runStarted, resultsCalls, cleared, pollFailed,
                   ticks, clears>>
    /\ inPoller

onMount_resultsRejected(r) ==
    /\ r \in InFlight /\ r.kind = "mountResults"
    /\ pending' = Settled(r)
    /\ keepPolling
    /\ UNCHANGED <<status, results, showAnalysisMenu, mounted, destroyed,
                   starts, runStarted, resultsCalls, cleared, pollFailed,
                   ticks, clears>>
    /\ inPoller

\* ---------------------------------------------------------------- the menu
\* onclick={() => { showAnalysisMenu = !showAnalysisMenu; }}
toggleAnalysisMenu ==
    /\ Alive /\ MenuButtonVisible
    /\ showAnalysisMenu' = ~showAnalysisMenu
    /\ keepPolling
    /\ UNCHANGED <<status, results, pending, mounted, destroyed, starts,
                   runStarted, resultsCalls, cleared, pollFailed,
                   ticks, clears>>
    /\ inPoller

\* ------------------------------------------------------ handleStartAnalysis
\* showAnalysisMenu = false; try { await startAnalysis(videoId, phase); ...
handleStartAnalysis(phase) ==
    /\ Alive /\ StartVisible
    /\ starts < MaxStarts
    /\ starts' = starts + 1
    /\ showAnalysisMenu' = FALSE
    /\ pending' = Sent(Req("start", StartLabel(phase)))
    /\ cleared' = 0
    /\ pollFailed' = 0
    /\ keepPolling
    /\ UNCHANGED <<status, results, mounted, destroyed, runStarted, resultsCalls,
                   ticks, clears>>
    /\ inPoller

\* status = { status: phase === 'audio' ? 'running_audio' : 'running_visual' }; startPolling()
handleStartAnalysis_resolved(r) ==
    /\ r \in InFlight /\ r.kind = "start"
    /\ pending' = Settled(r)
    /\ status' = r.arg
    /\ startPolling
    /\ cleared' = 0
    /\ pollFailed' = 0
    /\ runStarted' = TRUE
    /\ resultsCalls' = 0
    /\ UNCHANGED <<results, showAnalysisMenu, mounted, destroyed, starts, ticks,
                   clears>>
    /\ inPoller

\* catch (e) { status = { status: 'failed', error: ... } }
handleStartAnalysis_rejected(r) ==
    /\ r \in InFlight /\ r.kind = "start"
    /\ pending' = Settled(r)
    /\ status' = "failed"
    /\ keepPolling
    /\ UNCHANGED <<results, showAnalysisMenu, mounted, destroyed, starts,
                   runStarted, resultsCalls, cleared, pollFailed,
                   ticks, clears>>
    /\ inPoller

\* -------------------------------------------------------------- handleClear
\* await clearAnalysis(videoId);
handleClear ==
    /\ Alive /\ ClearVisible
    /\ clears < MaxClears
    /\ clears' = clears + 1
    /\ pending' = Sent(Req("clear", NULL))
    /\ keepPolling
    /\ UNCHANGED <<status, results, showAnalysisMenu, mounted, destroyed,
                   starts, runStarted, resultsCalls, cleared, pollFailed,
                   ticks>>
    /\ inPoller

\* handleClear without its `results = null;` line
handleClear_resolved_keepsResults(r) ==
    /\ r \in InFlight /\ r.kind = "clear"
    /\ pending' = Settled(r)
    /\ status' = "none"
    /\ cleared' = cleared + 1
    /\ keepPolling
    /\ UNCHANGED <<results, showAnalysisMenu, mounted, destroyed, starts, ticks,
                   clears, runStarted, resultsCalls, pollFailed>>
    /\ inPoller

\* status = { status: 'none' }; results = null; (selectedDetection = null)
handleClear_resolved(r) ==
    /\ r \in InFlight /\ r.kind = "clear"
    /\ pending' = Settled(r)
    /\ status' = "none"
    /\ results' = NULL
    /\ cleared' = cleared + 1
    /\ keepPolling
    /\ UNCHANGED <<showAnalysisMenu, mounted, destroyed, starts, runStarted, resultsCalls,
                   pollFailed,
                   ticks, clears>>
    /\ inPoller

\* clearAnalysis rejects: handleClear has no try/catch, the rest is skipped
handleClear_rejected(r) ==
    /\ r \in InFlight /\ r.kind = "clear"
    /\ pending' = Settled(r)
    /\ keepPolling
    /\ UNCHANGED <<status, results, showAnalysisMenu, mounted, destroyed,
                   starts, runStarted, resultsCalls, cleared, pollFailed,
                   ticks, clears>>
    /\ inPoller

\* ------------------------------------------------- the setInterval callback
\* the browser runs the callback of a live interval timer:
\* try { status = await getAnalysisStatus(videoId); ...
pollTick(t) ==
    /\ t \in timers
    /\ ticks < MaxTicks
    /\ ticks' = ticks + 1
    /\ pending' = Sent(Req("pollStatus", NULL))
    /\ keepPolling
    /\ UNCHANGED <<status, results, showAnalysisMenu, mounted, destroyed,
                   starts, runStarted, resultsCalls, cleared, pollFailed,
                   clears>>
    /\ inPoller

\* variant of the continuation below that keeps the timer when the job reports none
pollTick_statusResolved_noneKeepsPolling(r, s) ==
    /\ r \in InFlight /\ r.kind = "pollStatus"
    /\ status' = s
    /\ IF s = "completed"
       THEN /\ stopPolling
            /\ pending' = Replaced(r, Req("pollResults", NULL))
            /\ resultsCalls' = IF runStarted THEN resultsCalls + 1 ELSE resultsCalls
       ELSE /\ pending' = Settled(r)
            /\ UNCHANGED resultsCalls
            /\ IF s = "failed" THEN stopPolling ELSE keepPolling
    /\ UNCHANGED <<results, showAnalysisMenu, mounted, destroyed, starts,
                   runStarted, cleared, pollFailed, ticks, clears>>
    /\ inPoller

\* status = <response>; completed: stopPolling(); results = await getAnalysisResults(...)
\* failed or none: stopPolling()
pollTick_statusResolved(r, s) ==
    /\ r \in InFlight /\ r.kind = "pollStatus"
    /\ status' = s
    /\ IF s = "completed"
       THEN /\ stopPolling
            /\ pending' = Replaced(r, Req("pollResults", NULL))
            /\ resultsCalls' = IF runStarted THEN resultsCalls + 1 ELSE resultsCalls
       ELSE /\ pending' = Settled(r)
            /\ UNCHANGED resultsCalls
            /\ IF s \in {"failed", "none"} THEN stopPolling ELSE keepPolling
    /\ UNCHANGED <<results, showAnalysisMenu, mounted, destroyed, starts,
                   runStarted, cleared, pollFailed, ticks, clears>>
    /\ inPoller

\* catch { stopPolling(); }
pollTick_statusRejected(r) ==
    /\ r \in InFlight /\ r.kind = "pollStatus"
    /\ pending' = Settled(r)
    /\ stopPolling
    /\ pollFailed' = pollFailed + 1
    /\ UNCHANGED <<status, results, showAnalysisMenu, mounted, destroyed,
                   starts, runStarted, resultsCalls, cleared,
                   ticks, clears>>
    /\ inPoller

\* the tick marks the run completed again once its results have arrived
pollTick_resultsResolved_setsStatus(r, res) ==
    /\ r \in InFlight /\ r.kind = "pollResults"
    /\ pending' = Settled(r)
    /\ results' = res
    /\ status' = "completed"
    /\ keepPolling
    /\ UNCHANGED <<showAnalysisMenu, mounted, destroyed, starts, ticks, clears,
                   runStarted, resultsCalls, cleared, pollFailed>>
    /\ inPoller

\* results = <response of getAnalysisResults>
pollTick_resultsResolved(r, res) ==
    /\ r \in InFlight /\ r.kind = "pollResults"
    /\ pending' = Settled(r)
    /\ results' = res
    /\ keepPolling
    /\ UNCHANGED <<status, showAnalysisMenu, mounted, destroyed, starts,
                   runStarted, resultsCalls, cleared, pollFailed,
                   ticks, clears>>
    /\ inPoller

\* getAnalysisResults rejects inside the try: catch { stopPolling(); }
pollTick_resultsRejected(r) ==
    /\ r \in InFlight /\ r.kind = "pollResults"
    /\ pending' = Settled(r)
    /\ stopPolling
    /\ pollFailed' = pollFailed + 1
    /\ UNCHANGED <<status, results, showAnalysisMenu, mounted, destroyed,
                   starts, runStarted, resultsCalls, cleared,
                   ticks, clears>>
    /\ inPoller

\* ---------------------------------------------------------------- onDestroy
\* onDestroy(() => { stopPolling(); })
onDestroy ==
    /\ Alive
    /\ destroyed' = TRUE
    /\ stopPolling
    /\ UNCHANGED <<status, results, showAnalysisMenu, pending, mounted, starts,
                   ticks, clears, runStarted, resultsCalls, cleared, pollFailed>>
    /\ inPoller

Next ==
    \/ onMount
    \/ \E r \in InFlight, s \in Statuses : onMount_statusResolved(r, s)
    \/ \E r \in InFlight : onMount_statusRejected(r)
    \/ \E r \in InFlight, res \in ResultSets : onMount_resultsResolved(r, res)
    \/ \E r \in InFlight : onMount_resultsRejected(r)
    \/ toggleAnalysisMenu
    \/ \E p \in Phases : handleStartAnalysis(p)
    \/ \E r \in InFlight : handleStartAnalysis_resolved(r)
    \/ \E r \in InFlight : handleStartAnalysis_rejected(r)
    \/ handleClear
    \/ \E r \in InFlight : handleClear_resolved(r)
    \/ \E r \in InFlight : handleClear_rejected(r)
    \/ \E t \in timers : pollTick(t)
    \/ \E r \in InFlight, s \in Statuses : pollTick_statusResolved(r, s)
    \/ \E r \in InFlight : pollTick_statusRejected(r)
    \/ \E r \in InFlight, res \in ResultSets : pollTick_resultsResolved(r, res)
    \/ \E r \in InFlight : pollTick_resultsRejected(r)
    \/ onDestroy

Spec == Init /\ [][Next]_vars

\* ======================================================================
\* Observations of a step, read off the requests in flight
\* ======================================================================
Awaiting(kind) == CopiesIn(Req(kind, NULL), pending)

\* the step settled a request of this kind (ran the continuation after its await)
SettledOne(kind) == CopiesIn(Req(kind, NULL), pending') < CopiesIn(Req(kind, NULL), pending)

\* the step sent a request of this kind
SentOne(kind) == CopiesIn(Req(kind, NULL), pending') > CopiesIn(Req(kind, NULL), pending)

\* the step ran the continuation of `await startAnalysis(...)`
StartSettled ==
    \E l \in Running : CopiesIn(Req("start", l), pending') < CopiesIn(Req("start", l), pending)

\* ... and the request had succeeded (the catch branch leaves status failed)
StartAcknowledged == StartSettled /\ status' \in Running

\* the step ran a continuation of a status or results request of a poll tick
\* or of the on-mount check
LateResponse ==
    \/ SettledOne("pollStatus") \/ SettledOne("pollResults")
    \/ SettledOne("mountStatus") \/ SettledOne("mountResults")

TicksInFlight == Awaiting("pollStatus") + Awaiting("pollResults")

\* ======================================================================
\* Claims
\* ======================================================================

\* C1: in a run (an acknowledged start, then poll ticks that end in completed)
\* getAnalysisResults is called exactly once, the tick that sees completed
\* clears the timer, and after it no tick fires and no results request is made
\* until a start is acknowledged again.
C1_ResultsFetchedOncePerRun ==
    [][ /\ (resultsCalls' > resultsCalls => timers' = {} /\ pollInterval' = NULL)
        /\ (resultsCalls >= 1 => ticks' = ticks /\ resultsCalls' <= resultsCalls) ]_vars

\* C2: at most one polling interval timer is alive for the component.
C2_AtMostOneTimer == Cardinality(timers) <= 1

\* C2 witness: a second timer generation is alive after the first one was stopped.
C2_Witness == Cardinality(timers) = 1 /\ nextTimer > 2

\* C3: no poll tick issues its status request while an earlier tick of the
\* poller is still awaiting its status or results response.
C3_NoOverlappingTicks == TicksInFlight <= 1

\* C4: once a clear has succeeded (or the component was destroyed) and no start
\* was requested since, a poll, mount-check or results response changes
\* neither status nor results.
C4_LateResponseIgnored ==
    [][ ((cleared > 0 \/ destroyed) /\ LateResponse)
            => (status' = status /\ results' = results) ]_vars

\* C5: after the component is destroyed no polling timer is alive, whatever
\* was still awaiting its response at the time.
C5_NoTimerAfterDestroy == destroyed => timers = {}

\* C6: a poll tick whose status or results request throws clears the timer in
\* that tick, and no tick fires afterwards until a start is requested again.
C6_PollFailureIsTerminal ==
    [][ /\ (pollFailed' > pollFailed => timers' = {} /\ pollInterval' = NULL)
        /\ (pollFailed > 0 => ticks' = ticks) ]_vars

C8_ClearOnlyWhenFinished ==
    [][ (status \in ({"none"} \cup Running)) => ~SentOne("clear") ]_vars

\* C8 witness: the component is alive and running, a clear is still within the
\* explored budget and none is in flight.
C8_Witness ==
    Alive /\ status \in Running /\ clears < MaxClears /\ Awaiting("clear") = 0

\* C9 (as claimed): in completed and in failed the clear control is offered,
\* and a successful clear leaves status none and results null.
C9_ClearFromCompletedAndFailed ==
    /\ [](Alive /\ status \in {"completed", "failed"} => ClearVisible)
    /\ [][ cleared' > cleared => (status' = "none" /\ results' = NULL) ]_vars

\* C9 (amended): the clear control is offered in completed (every time the
\* status is completed, not in failed), and a successful clear leaves status
\* none and results null.
C9_ClearFromCompleted ==
    /\ [](Alive /\ status = "completed" /\ clears < MaxClears => ENABLED handleClear)
    /\ [][ cleared' > cleared => (status' = "none" /\ results' = NULL) ]_vars

\* C9 witness: a clear has succeeded and the results are gone.
C9_Witness == cleared > 0 /\ clears > 0 /\ status = "none" /\ results = NULL

\* C10: the continuation of a successful start leaves exactly one timer alive,
\* and that timer was created in this step (it was not alive before).
C10_StartCreatesItsTimer ==
    [][ StartAcknowledged
            => (pollInterval' # NULL /\ pollInterval' \notin timers
                /\ timers' = {pollInterval'}) ]_vars

\* C11: when the continuation of a poll tick's status request receives none
\* while the local status is running_*, the timer is cleared, the local status
\* is none, the results are left as they were and the error path is not taken.
C11_PollNoneIsSilentAbort ==
    [][ (SettledOne("pollStatus") /\ status \in Running /\ status' = "none")
            => /\ timers' = {} /\ pollInterval' = NULL
               /\ results' = results
               /\ status' # "failed" /\ pollFailed' = pollFailed ]_vars

\* C11 witness: the only tick of the only acknowledged start was answered none
\* (no clear was requested and the on-mount check is still unanswered).
C11_Witness ==
    /\ runStarted /\ starts = 1 /\ ticks = 1 /\ clears = 0
    /\ Awaiting("mountStatus") = 1 /\ TicksInFlight = 0
    /\ status = "none" /\ timers = {} /\ pollFailed = 0

\* C12: when a re-run started from completed is acknowledged, the component
\* holds no result of the previous run (results is null).
C12_RerunDiscardsResults ==
    [][ (StartAcknowledged /\ status = "completed") => results' = NULL ]_vars

\* ======================================================================
\* DetectionList.svelte: type filter and inline accept-as-chapter draft
\* ======================================================================
\* bounds of the detections handed to the list
MaxDetections == 2
MaxStamp == 2

\* types of the detections drawn as inputs
DetTypes == {"scene_change", "bell"}
Detections == [timestamp_ticks : 1..MaxStamp, type : DetTypes]

\* allDetections of the host: [...visual, ...audio].sort((a, b) => a.timestamp_ticks - b.timestamp_ticks)
SortedByStamp(ds) ==
    \A i \in 1..Len(ds) : \A j \in i..Len(ds) : ds[i].timestamp_ticks <= ds[j].timestamp_ticks

DetectionLists ==
    { ds \in UNION { [1..n -> Detections] : n \in 0..MaxDetections } : SortedByStamp(ds) }

\* what the user may type into the title input
TypedTitles == {"", "Main Event", " Main Event "}

\* String.prototype.trim on the titles that occur
Trim(t) == IF t = " Main Event " THEN "Main Event" ELSE t

defaultTitle(type) ==
    CASE type = "bell" -> "Match Start"
      [] type = "music_start" -> "Entrance"
      [] type = "scene_change" -> "Segment Break"
      [] type = "dark_frame" -> "Segment Break"
      [] type = "graphics_change" -> "Graphics"
      [] OTHER -> "Chapter"

\* detections.filter(d => showTypes[d.type] !== false)
Shown(d) == showTypes[d.type]
filteredDetections == SelectSeq(detections, Shown)

\* the row that renders the draft ({#if editingIdx === i}), if there is one
DraftRowShown == editingIdx # NULL /\ editingIdx <= Len(filteredDetections)

ListInit ==
    /\ PollerInit /\ ChaptersIdle /\ TimelineIdle /\ WidgetsIdle
    /\ detections \in DetectionLists
    /\ ListConstructed

\* the host passes another detection list (allDetections is re-derived whenever
\* results is assigned)
detectionsReplaced(ds) ==
    /\ ds # detections
    /\ detections' = ds
    /\ lastAccept' = <<>>
    /\ UNCHANGED <<showTypes, editingIdx, editTitle, draftOf>>
    /\ inList

\* filter button of a type that occurs: showTypes[t] = !showTypes[t]
toggleType(t) ==
    /\ \E i \in 1..Len(detections) : detections[i].type = t
    /\ showTypes' = [showTypes EXCEPT ![t] = ~showTypes[t]]
    /\ lastAccept' = <<>>
    /\ UNCHANGED <<detections, editingIdx, editTitle, draftOf>>
    /\ inList

\* "Accept as Chapter" of row i (rendered in the rows that do not show the draft)
startAccept(i) ==
    /\ i \in 1..Len(filteredDetections)
    /\ editingIdx # i
    /\ editingIdx' = i
    /\ editTitle' = defaultTitle(filteredDetections[i].type)
    /\ draftOf' = <<filteredDetections[i]>>
    /\ lastAccept' = <<>>
    /\ UNCHANGED <<detections, showTypes>>
    /\ inList

\* bind:value={editTitle} of the draft row's input
typeTitle(t) ==
    /\ DraftRowShown
    /\ t # editTitle
    /\ editTitle' = t
    /\ lastAccept' = <<>>
    /\ UNCHANGED <<detections, showTypes, editingIdx, draftOf>>
    /\ inList

\* Add button / Enter of the draft row: confirmAccept(det.timestamp_ticks), det
\* being the detection that row editingIdx renders now
confirmAccept ==
    /\ DraftRowShown
    /\ lastAccept' = IF Trim(editTitle) # ""
                     THEN <<[ticks |-> filteredDetections[editingIdx].timestamp_ticks,
                             title |-> Trim(editTitle)]>>
                     ELSE <<>>
    /\ editingIdx' = NULL
    /\ editTitle' = ""
    /\ UNCHANGED <<detections, showTypes, draftOf>>
    /\ inList

\* Cancel button / Escape of the draft row
cancelAccept ==
    /\ DraftRowShown
    /\ editingIdx' = NULL
    /\ editTitle' = ""
    /\ lastAccept' = <<>>
    /\ UNCHANGED <<detections, showTypes, draftOf>>
    /\ inList

ListNext ==
    \/ \E ds \in DetectionLists : detectionsReplaced(ds)
    \/ \E t \in allTypes : toggleType(t)
    \/ \E i \in 1..MaxDetections : startAccept(i)
    \/ \E t \in TypedTitles : typeTitle(t)
    \/ confirmAccept
    \/ cancelAccept

SpecList == ListInit /\ [][ListNext]_vars

\* C13: a confirm that calls onAcceptChapter passes the timestamp_ticks of the
\* detection that was selected when the draft was opened, and the edited title.
C13_ConfirmCreatesSelectedDetection ==
    [][ lastAccept' # <<>>
            => /\ lastAccept'[1].ticks = draftOf[1].timestamp_ticks
               /\ lastAccept'[1].title = Trim(editTitle) ]_vars

\* ======================================================================
\* Chapters: create-then-reload (handleAcceptChapter, markMatch) and the views
\* ======================================================================
\* bounds: chapters the video has when the page loads, flows started on the page
MaxStored == 1
MaxAccepts == 2

Pages == {"player", "detect"}

\* start_ticks passed to createChapter (a detection's timestamp_ticks, or the
\* playback position)
StartTicks == 1..MaxStamp

Chapter(id, at, title) == [id |-> id, start_ticks |-> at, title |-> title]

\* what the store may hold when the page loads
StoredAtLoad ==
    UNION { { [i \in 1..n |-> Chapter(i, f[i], "Opener")] : f \in [1..n -> StartTicks] }
            : n \in 0..MaxStored }

\* the chapter API returns the stored chapters in an order of its own
ApiOrders(st) ==
    { [i \in 1..Len(st) |-> st[p[i]]] : p \in Permutations(1..Len(st)) }

\* [...chapters].sort((a, b) => a.start_ticks - b.start_ticks), a stable sort
RECURSIVE SortByStart(_)
SortByStart(cs) ==
    IF cs = <<>> THEN <<>>
    ELSE LET rest == SortByStart(SubSeq(cs, 1, Len(cs) - 1))
             c == cs[Len(cs)]
             k == Cardinality({ i \in 1..Len(rest) : rest[i].start_ticks <= c.start_ticks })
         IN SubSeq(rest, 1, k) \o <<c>> \o SubSeq(rest, k + 1, Len(rest))

sortedChapters == SortByStart(chapters)

\* what each view iterates over
\* detect page: <PlayerControls chapters={sortedChapters}>; player page: <PlayerControls {chapters}>
controlBarChapters == IF page = "detect" THEN sortedChapters ELSE chapters
\* detect page: <DetectionTimeline chapters={sortedChapters}>
timelineLaneChapters == sortedChapters
\* player page: {#each sortedChapters as chapter}
chapterListChapters == sortedChapters
\* ChapterEditor sorts the prop it is given: {#each sortedChapters as chapter}
chapterEditorChapters == SortByStart(chapters)

\* a flow's progress
Flow(stage, at, title, created, snapshot) ==
    [stage |-> stage, ticks |-> at, title |-> title, created |-> created,
     snapshot |-> snapshot]
Advance(a, flow) == accepts' = [accepts EXCEPT ![a] = flow]
Failed == {"createFailed", "reloadFailed"}

\* onMount: playerInfo = await getPlayerInfo(videoId); chapters = playerInfo.chapters
ChaptersInit ==
    /\ PollerInit /\ ListIdle /\ TimelineIdle /\ WidgetsIdle
    /\ page \in Pages
    /\ store \in StoredAtLoad
    /\ chapters \in ApiOrders(store)
    /\ accepts = <<>>

\* detect page: handleAcceptChapter(ticks, title) up to its first await:
\* await createChapter(videoId, { title, start_ticks: ticks })
handleAcceptChapter(at, title) ==
    /\ page = "detect"
    /\ Len(accepts) < MaxAccepts
    /\ accepts' = Append(accepts, Flow("createSent", at, title, NULL, <<>>))
    /\ UNCHANGED <<page, store, chapters>>
    /\ inChapters

\* player page: markMatch(match) up to its first await:
\* await createChapter(videoId, { title: matchTitle(match), start_ticks: <position>, ... })
markMatch(at) ==
    /\ page = "player"
    /\ Len(accepts) < MaxAccepts
    /\ accepts' = Append(accepts, Flow("createSent", at, "Match", NULL, <<>>))
    /\ UNCHANGED <<page, store, chapters>>
    /\ inChapters

\* the server stores the chapter of a create request and answers
createChapter_applied(a) ==
    /\ accepts[a].stage = "createSent"
    /\ store' = Append(store, Chapter(Len(store) + 1, accepts[a].ticks, accepts[a].title))
    /\ Advance(a, [accepts[a] EXCEPT !.stage = "createApplied", !.created = Len(store) + 1])
    /\ UNCHANGED <<page, chapters>>
    /\ inChapters

\* the create resolved: chapters = await getChapters(videoId), up to the await
createChapter_resolved(a) ==
    /\ accepts[a].stage = "createApplied"
    /\ Advance(a, [accepts[a] EXCEPT !.stage = "reloadSent"])
    /\ UNCHANGED <<page, store, chapters>>
    /\ inChapters

\* the create threw: catch (e) { console.error('Failed to create chapter:', e) }
createChapter_rejected(a) ==
    /\ accepts[a].stage = "createSent"
    /\ Advance(a, [accepts[a] EXCEPT !.stage = "createFailed"])
    /\ UNCHANGED <<page, store, chapters>>
    /\ inChapters

\* the server answers a getChapters request with what it stores now
getChapters_answered(a, cs) ==
    /\ accepts[a].stage = "reloadSent"
    /\ cs \in ApiOrders(store)
    /\ Advance(a, [accepts[a] EXCEPT !.stage = "reloadAnswered", !.snapshot = cs])
    /\ UNCHANGED <<page, store, chapters>>
    /\ inChapters

\* the reload resolved: chapters = <response>
getChapters_resolved(a) ==
    /\ accepts[a].stage = "reloadAnswered"
    /\ chapters' = accepts[a].snapshot
    /\ Advance(a, [accepts[a] EXCEPT !.stage = "done", !.snapshot = <<>>])
    /\ UNCHANGED <<page, store>>
    /\ inChapters

\* the reload threw: the same catch
getChapters_rejected(a) ==
    /\ accepts[a].stage = "reloadSent"
    /\ Advance(a, [accepts[a] EXCEPT !.stage = "reloadFailed"])
    /\ UNCHANGED <<page, store, chapters>>
    /\ inChapters

ChaptersNext ==
    \/ \E t \in StartTicks : handleAcceptChapter(t, "Match Start")
    \/ \E t \in StartTicks : markMatch(t)
    \/ \E a \in 1..Len(accepts) : createChapter_applied(a)
    \/ \E a \in 1..Len(accepts) : createChapter_resolved(a)
    \/ \E a \in 1..Len(accepts) : createChapter_rejected(a)
    \/ \E a \in 1..Len(accepts) : \E cs \in ApiOrders(store) : getChapters_answered(a, cs)
    \/ \E a \in 1..Len(accepts) : getChapters_resolved(a)
    \/ \E a \in 1..Len(accepts) : getChapters_rejected(a)

SpecChapters == ChaptersInit /\ [][ChaptersNext]_vars

IsOrderedByStart(cs) ==
    \A i \in 1..Len(cs) : \A j \in i..Len(cs) : cs[i].start_ticks <= cs[j].start_ticks
Holds(cs, c) == \E i \in 1..Len(cs) : cs[i] = c

\* C14: when a flow ends in its error path (its create or its reload threw),
\* the store holds no chapter created by that flow, the local chapter list is
\* unchanged and no request is made (no other flow starts or advances).
C14_ErrorPathLeavesNoChapter ==
    [][ \A a \in 1..Len(accepts) :
            (accepts[a].stage \notin Failed /\ accepts'[a].stage \in Failed)
                => /\ \A i \in 1..Len(store') : store'[i].id # accepts'[a].created
                   /\ chapters' = chapters
                   /\ Len(accepts') = Len(accepts)
                   /\ \A b \in 1..Len(accepts) : b # a => accepts'[b] = accepts[b] ]_vars

\* C15: once every accept has settled with all its requests succeeding, the
\* displayed chapter list holds every stored chapter and is ordered by
\* start_ticks ascending.
C15_SettledListHoldsEveryChapter ==
    (/\ page = "detect" /\ accepts # <<>>
     /\ \A a \in 1..Len(accepts) : accepts[a].stage = "done")
        => /\ \A i \in 1..Len(store) : Holds(sortedChapters, store[i])
           /\ IsOrderedByStart(sortedChapters)

\* C16: every view that displays chapters iterates over them ordered by
\* start_ticks ascending, whatever order the API returned.
C16_EveryViewOrdered ==
    /\ IsOrderedByStart(controlBarChapters)
    /\ IsOrderedByStart(timelineLaneChapters)
    /\ IsOrderedByStart(chapterListChapters)
    /\ IsOrderedByStart(chapterEditorChapters)

\* ======================================================================
\* Timeline surfaces: click-to-seek, markers, playhead and thumbnail index
\* (DetectionTimeline, the scrolling and the full-width waveform, the filmstrip)
\* ======================================================================
\* bounds of the props
MaxDurationMs == 2
MaxLaneWidth == 3
MaxThumbs == 2
MaxIntervalMs == 2

\* ticks per millisecond (10,000,000 per second)
TicksPerMs == 10000

DurationInputs == { d * TicksPerMs : d \in 0..MaxDurationMs }
\* timestamps of the detections that have a marker, and playback positions
MarkerStamps == { m \in DurationInputs : m <= durationTicks }

\* JavaScript numbers: the integers, NaN and Infinity. Finite results are
\* computed in exact arithmetic and taken to whole units.
Num(n) == [k |-> "num", v |-> n]
NaN == [k |-> "nan", v |-> 0]
Infinity == [k |-> "inf", v |-> 0]

\* Math.floor((a / b) * c) for a, b, c >= 0: 0/0 is NaN, a/0 is Infinity,
\* Infinity * 0 is NaN
ScaleFloor(a, b, c) ==
    IF b = 0
    THEN IF a = 0 \/ c = 0 THEN NaN ELSE Infinity
    ELSE Num((a * c) \div b)

\* Math.min and Math.max: NaN if an argument is NaN
JsMin(a, b) ==
    IF a.k = "nan" \/ b.k = "nan" THEN NaN
    ELSE IF a.k = "inf" THEN b
    ELSE IF b.k = "inf" THEN a
    ELSE IF a.v <= b.v THEN a ELSE b

JsMax(a, b) ==
    IF a.k = "nan" \/ b.k = "nan" THEN NaN
    ELSE IF a.k = "inf" \/ b.k = "inf" THEN Infinity
    ELSE IF a.v >= b.v THEN a ELSE b

\* variant of the mapping below without the clamp
PixelToTicks_unclamped(x) == ScaleFloor(x, laneWidth, durationTicks)

\* const ratio = x / timelineWidth; const ticks = Math.floor(ratio * durationTicks);
\* Math.max(0, Math.min(durationTicks, ticks))
PixelToTicks(x) ==
    JsMax(Num(0), JsMin(Num(durationTicks), ScaleFloor(x, laneWidth, durationTicks)))

\* DetectionTimeline: if (durationTicks <= 0) return 0; (ticks / durationTicks) * timelineWidth
ticksToX(t) ==
    IF durationTicks <= 0 THEN Num(0) ELSE ScaleFloor(t, durationTicks, laneWidth)

\* scrolling waveform: (currentTimeTicks / durationTicks) * waveformWidth
playheadX == ScaleFloor(currentTimeTicks, durationTicks, laneWidth)

\* getThumbIndexForTime(timeSecs), timeSecs * 1000 being the fraction num / den:
\* Math.min(Math.max(0, Math.floor(timeSecs / (interval / 1000))), thumbnail_count - 1)
getThumbIndexForTime(num, den) ==
    JsMin(JsMax(Num(0), ScaleFloor(num, den * trickplay.interval, 1)),
          Num(trickplay.thumbnail_count - 1))

\* viewport x coordinates are taken relative to the scroll container's left
\* edge: a point at lane offset o is at clientX = o - scrollLeft, the lane's
\* getBoundingClientRect().left is -scrollLeft, the container's is 0
clientX(o) == o - scrollLeft
laneRectLeft == 0 - scrollLeft
containerRectLeft == 0

\* lane offsets a pointer event can have: the lane has a width and the point
\* is not scrolled out to the left
Clickable(o) == laneWidth > 0 /\ o \in scrollLeft..laneWidth

Handled(kind, o, x, calls, thumb) ==
    [kind |-> kind, o |-> o, s |-> scrollLeft, x |-> x, calls |-> calls, thumb |-> thumb]

TimelineInit ==
    /\ PollerInit /\ ListIdle /\ ChaptersIdle /\ WidgetsIdle
    /\ durationTicks \in DurationInputs
    /\ laneWidth \in 0..MaxLaneWidth
    /\ trickplay \in [thumbnail_count : 0..MaxThumbs, interval : 0..MaxIntervalMs]
    /\ scrollLeft = 0
    /\ currentTimeTicks = 0
    /\ selectedDetection = <<>>
    /\ event = NoEvent

props == <<durationTicks, laneWidth, trickplay>>

\* the user scrolls the container
scrolled(sl) ==
    /\ sl \in 0..laneWidth /\ sl # scrollLeft
    /\ scrollLeft' = sl
    /\ event' = NoEvent
    /\ UNCHANGED <<props, currentTimeTicks, selectedDetection>>
    /\ inTimeline

\* ontimeupdate of the video: currentTimeTicks follows the playback position
timeUpdated(t) ==
    /\ t \in MarkerStamps /\ t # currentTimeTicks
    /\ currentTimeTicks' = t
    /\ event' = NoEvent
    /\ UNCHANGED <<props, scrollLeft, selectedDetection>>
    /\ inTimeline

\* DetectionTimeline, click on a lane (the lane is the event's currentTarget):
\* x = e.clientX - rect.left + scrollLeft; onSeekTo(clamped ticks of x)
handleLaneClick(o) ==
    /\ Clickable(o)
    /\ LET x == clientX(o) - laneRectLeft + scrollLeft
       IN event' = Handled("laneClick", o, x, <<PixelToTicks(x)>>, <<>>)
    /\ UNCHANGED <<props, scrollLeft, currentTimeTicks, selectedDetection>>
    /\ inTimeline

\* scrolling waveform, click (the scroll container is the currentTarget):
\* clickX = e.clientX - rect.left + scrollLeft
handleWaveformClick(o) ==
    /\ Clickable(o)
    /\ LET x == clientX(o) - containerRectLeft + scrollLeft
       IN event' = Handled("waveformClick", o, x, <<PixelToTicks(x)>>, <<>>)
    /\ UNCHANGED <<props, scrollLeft, currentTimeTicks, selectedDetection>>
    /\ inTimeline

\* full-width waveform, which does not scroll: clickX = e.clientX - rect.left
handleWaveformClick_fullWidth(o) ==
    /\ laneWidth > 0 /\ o \in 0..laneWidth
    /\ event' = [Handled("fullWidthClick", o, o, <<PixelToTicks(o)>>, <<>>) EXCEPT !.s = 0]
    /\ UNCHANGED <<props, scrollLeft, currentTimeTicks, selectedDetection>>
    /\ inTimeline

\* scrolling waveform, pointer move: timeSecs = (hoverX / waveformWidth) * durationSecs;
\* thumbIdx = getThumbIndexForTime(timeSecs)
handleWaveformHover(o) ==
    /\ Clickable(o)
    /\ LET x == clientX(o) - containerRectLeft + scrollLeft
       IN event' = Handled("hover", o, x, <<>>,
                           <<getThumbIndexForTime(x * (durationTicks \div TicksPerMs), laneWidth)>>)
    /\ UNCHANGED <<props, scrollLeft, currentTimeTicks, selectedDetection>>
    /\ inTimeline

\* player seek bar, getTrickplayStyle(hoverRatio) for the pointer at offset o of
\* the bar: if (!trickplay || !duration) return null;
\* positionMs = Math.floor(hoverRatio * duration * 1000);
\* thumbIndex = Math.floor(positionMs / trickplay.interval)
getTrickplayStyle(o) ==
    IF durationTicks = 0
    THEN <<>>
    ELSE <<ScaleFloor((o * (durationTicks \div TicksPerMs)) \div laneWidth,
                      trickplay.interval, 1)>>

\* player seek bar, pointer move (the bar does not scroll):
\* hoverPosition = Math.max(0, Math.min(1, (e.clientX - rect.left) / rect.width));
\* the preview is drawn from getTrickplayStyle(hoverPosition)
handleSeekBarHover(o) ==
    /\ laneWidth > 0 /\ o \in 0..laneWidth
    /\ event' = [Handled("seekBarHover", o, o, <<>>, getTrickplayStyle(o)) EXCEPT !.s = 0]
    /\ UNCHANGED <<props, scrollLeft, currentTimeTicks, selectedDetection>>
    /\ inTimeline

\* variant of the marker click below that lets the click reach the lane
timelineMarkerClick_propagates(m) ==
    /\ laneWidth > 0 /\ m \in MarkerStamps
    /\ ticksToX(m).v \in scrollLeft..laneWidth
    /\ LET o == ticksToX(m).v
           x == clientX(o) - laneRectLeft + scrollLeft
       IN event' = Handled("markerClick", m, x, <<Num(m), PixelToTicks(x)>>, <<>>)
    /\ UNCHANGED <<props, scrollLeft, currentTimeTicks, selectedDetection>>
    /\ inTimeline

\* DetectionTimeline, click on a detection marker of a lane:
\* e.stopPropagation(); onDetectionClick(det) -> handleDetectionClick: seekTo(det.timestamp_ticks)
timelineMarkerClick(m) ==
    /\ laneWidth > 0 /\ m \in MarkerStamps
    /\ ticksToX(m).v \in scrollLeft..laneWidth
    /\ event' = Handled("markerClick", m, ticksToX(m).v, <<Num(m)>>, <<>>)
    /\ UNCHANGED <<props, scrollLeft, currentTimeTicks, selectedDetection>>
    /\ inTimeline

\* filmstrip, handleMarkerClick(detection, e): e.stopPropagation();
\* onSeekTo(detection.timestamp_ticks); toggle selectedDetection
handleMarkerClick(m) ==
    /\ laneWidth > 0 /\ durationTicks > 0 /\ m \in MarkerStamps
    /\ event' = Handled("filmstripMarkerClick", m, 0, <<Num(m)>>, <<>>)
    /\ selectedDetection' = IF selectedDetection = <<m>> THEN <<>> ELSE <<m>>
    /\ UNCHANGED <<props, scrollLeft, currentTimeTicks>>
    /\ inTimeline

TimelineNext ==
    \/ \E sl \in 0..MaxLaneWidth : scrolled(sl)
    \/ \E t \in DurationInputs : timeUpdated(t)
    \/ \E o \in 0..MaxLaneWidth : handleLaneClick(o)
    \/ \E o \in 0..MaxLaneWidth : handleWaveformClick(o)
    \/ \E o \in 0..MaxLaneWidth : handleWaveformClick_fullWidth(o)
    \/ \E o \in 0..MaxLaneWidth : handleWaveformHover(o)
    \/ \E o \in 0..MaxLaneWidth : handleSeekBarHover(o)
    \/ \E m \in DurationInputs : timelineMarkerClick(m)
    \/ \E m \in DurationInputs : handleMarkerClick(m)

SpecTimeline == TimelineInit /\ [][TimelineNext]_vars

MarkerClicks == {"markerClick", "filmstripMarkerClick"}
LaneClicks == {"laneClick", "waveformClick", "fullWidthClick"}
InRange(n) == n.k = "num" /\ n.v >= 0 /\ n.v <= durationTicks

C18_SeekIndependentOfScroll ==
    event.kind \in LaneClicks => event.calls = <<PixelToTicks(event.o)>>

\* C19: over the pixel offsets 0..laneWidth the mapping used for click-to-seek
\* is monotonically non-decreasing, maps 0 to 0 and laneWidth to durationTicks,
\* and every value it yields, and every value a lane click passes to the seek
\* callback, lies in [0, durationTicks].
C19_PixelToTicksMonotoneInRange ==
    laneWidth > 0 =>
        /\ \A x1 \in 0..laneWidth : \A x2 \in x1..laneWidth :
               /\ InRange(PixelToTicks(x1)) /\ InRange(PixelToTicks(x2))
               /\ PixelToTicks(x1).v <= PixelToTicks(x2).v
        /\ PixelToTicks(0) = Num(0)
        /\ PixelToTicks(laneWidth) = Num(durationTicks)
        /\ event.kind \in LaneClicks =>
               /\ Len(event.calls) = 1 /\ InRange(event.calls[1])
               /\ event.x = 0 => event.calls[1] = Num(0)
               /\ event.x = laneWidth => event.calls[1] = Num(durationTicks)

\* C19 witness: a click at the right end of a lane sought to the duration.
C19_Witness ==
    /\ event.kind \in LaneClicks /\ event.x = laneWidth /\ durationTicks > 0
    /\ event.calls = <<Num(durationTicks)>>

\* the defined default of a position or index when an input is zero
ZeroInput ==
    \/ trickplay.thumbnail_count = 0 \/ trickplay.interval = 0
    \/ laneWidth = 0 \/ durationTicks = 0

\* C20: with a zero thumbnail_count, a zero interval, a zero lane width or
\* durationTicks = 0, the thumbnail index, the pixel positions and the tick
\* passed to the seek callback are the default 0; none is negative, NaN or
\* infinite.
C20_ZeroInputsGiveDefaults ==
    /\ (durationTicks = 0 \/ laneWidth = 0) =>
           /\ playheadX = Num(0)
           /\ ticksToX(currentTimeTicks) = Num(0)
           /\ event.kind \in LaneClicks => event.calls = <<Num(0)>>
    /\ (event.kind = "hover" /\ ZeroInput) => event.thumb = <<Num(0)>>
    /\ event.kind = "hover" => (event.thumb[1].k = "num" /\ event.thumb[1].v >= 0)
    /\ playheadX.k = "num" /\ ticksToX(currentTimeTicks).k = "num"

\* the inputs the thumbnail index is specified for: a video with a duration and
\* trickplay with at least one thumbnail and a positive interval
ThumbInputs ==
    durationTicks > 0 /\ trickplay.thumbnail_count > 0 /\ trickplay.interval > 0

Hovers == {"hover", "seekBarHover"}

\* clamp(floor(timeSecs * 1000 / interval), 0, thumbnail_count - 1) for the
\* pointer at offset x of a surface laneWidth wide
timeToThumbIndex(x) ==
    LET i == (x * (durationTicks \div TicksPerMs)) \div (laneWidth * trickplay.interval)
    IN IF i > trickplay.thumbnail_count - 1 THEN trickplay.thumbnail_count - 1 ELSE i

\* C21: for every hover position on the waveform or on the player seek bar,
\* the right end included, the thumbnail index of the preview is
\* clamp(floor(timeSecs * 1000 / interval), 0, thumbnail_count - 1), and so
\* lies in [0, thumbnail_count - 1].
C21_HoverThumbIndexClamped ==
    (event.kind \in Hovers /\ ThumbInputs) =>
        /\ event.thumb = <<Num(timeToThumbIndex(event.x))>>
        /\ event.thumb[1].v >= 0
        /\ event.thumb[1].v <= trickplay.thumbnail_count - 1

\* ======================================================================
\* Waveform: downsampleSpectrum (the scrolling and the full-width waveform
\* carry the same function)
\* ======================================================================
\* points of a spectrum
MaxPoints == 3
\* latest time of a point and longest duration, in seconds
MaxSecs == 2
\* levels of the music confidence
MaxMusic == 2
\* largest target point count, in halves of a point
MaxTargetHalves == 5

SpectrumPoint == [t : 0..MaxSecs, music : 0..MaxMusic]

\* the analysis emits one point per window, in time order
TimeOrdered(sp) == \A i \in 1..Len(sp) - 1 : sp[i].t <= sp[i + 1].t

Spectra ==
    UNION { { sp \in [1..n -> SpectrumPoint] : TimeOrdered(sp) } : n \in 0..MaxPoints }

\* a point drawn: x as the fraction x[1] / x[2] of the width, and its value
Drawn(num, den, value) == [x |-> <<num, den>>, value |-> value]

\* Math.max(1, Math.floor(targetPoints))
bucketCount(halves) == IF halves \div 2 < 1 THEN 1 ELSE halves \div 2

\* while (si < spec.length && spec[si].t < bucketEnd) {
\*     if (spec[si].t >= bucketStart) maxVal = Math.max(maxVal, spec[si].music); si++ }
\* with bucketStart = b * (durSecs / buckets) and bucketEnd = bucketStart + durSecs / buckets,
\* compared in exact arithmetic; si counts the points consumed
RECURSIVE ScanBucket(_, _, _, _, _, _)
ScanBucket(spec, durSecs, buckets, b, si, maxVal) ==
    IF si < Len(spec) /\ spec[si + 1].t * buckets < (b + 1) * durSecs
    THEN ScanBucket(spec, durSecs, buckets, b, si + 1,
                    IF spec[si + 1].t * buckets >= b * durSecs /\ spec[si + 1].music > maxVal
                    THEN spec[si + 1].music ELSE maxVal)
    ELSE <<si, maxVal>>

\* for (let b = 0; b < bucketCount; b++) { ...; if (si > 0 && spec[si - 1].t >= bucketEnd) si--;
\*     out.push({ x: (bucketStart + bucketDur / 2) / durSecs, value: maxVal }) }
RECURSIVE FillBuckets(_, _, _, _, _, _)
FillBuckets(spec, durSecs, buckets, b, si, out) ==
    IF b >= buckets
    THEN out
    ELSE LET scanned == ScanBucket(spec, durSecs, buckets, b, si, 0)
             sj == scanned[1]
             peeked == IF sj > 0 /\ spec[sj].t * buckets >= (b + 1) * durSecs
                       THEN sj - 1 ELSE sj
         IN FillBuckets(spec, durSecs, buckets, b + 1, peeked,
                        Append(out, Drawn(2 * b + 1, 2 * buckets, scanned[2])))

\* variant of the function below without Math.max(1, ...) and Math.floor
downsampleSpectrum_rawTarget(spec, halves, durSecs) ==
    IF Len(spec) = 0 \/ durSecs <= 0
    THEN <<>>
    ELSE IF 2 * Len(spec) <= halves
    THEN [i \in 1..Len(spec) |-> Drawn(spec[i].t, durSecs, spec[i].music)]
    ELSE FillBuckets(spec, durSecs, (halves + 1) \div 2, 0, 0, <<>>)

\* function downsampleSpectrum(spec, targetPoints, durSecs), targetPoints = halves / 2
downsampleSpectrum(spec, halves, durSecs) ==
    IF Len(spec) = 0 \/ durSecs <= 0
    THEN <<>>
    ELSE IF 2 * Len(spec) <= halves
    THEN [i \in 1..Len(spec) |-> Drawn(spec[i].t, durSecs, spec[i].music)]
    ELSE FillBuckets(spec, durSecs, bucketCount(halves), 0, 0, <<>>)

\* the waveform as mounted: no results yet, so no spectrum
WaveInit ==
    /\ CoreIdle /\ ZoomIdle /\ LaneIdle /\ RatingIdle /\ OverlayIdle
    /\ spectrum = <<>>
    /\ durationSecs \in 0..MaxSecs
    /\ targetHalves \in 0..MaxTargetHalves
    /\ downsampled = <<>>

\* results arrive: spectrum = results.audio_spectrum, and downsampled is derived again
spectrumLoaded(sp) ==
    /\ spectrum = <<>> /\ sp # <<>>
    /\ spectrum' = sp
    /\ downsampled' = downsampleSpectrum(sp, targetHalves, durationSecs)
    /\ UNCHANGED <<durationSecs, targetHalves>>
    /\ inWave

\* the ResizeObserver (or a zoom step) changes the width, and downsampled is derived again
resized(halves) ==
    /\ halves # targetHalves
    /\ targetHalves' = halves
    /\ downsampled' = downsampleSpectrum(spectrum, halves, durationSecs)
    /\ UNCHANGED <<spectrum, durationSecs>>
    /\ inWave

\* the payloads that can arrive: results are loaded once while the waveform is mounted
Loadable == IF spectrum = <<>> THEN Spectra ELSE {}

WaveNext ==
    \/ \E sp \in Loadable : spectrumLoaded(sp)
    \/ \E halves \in 0..MaxTargetHalves : resized(halves)

SpecWave == WaveInit /\ [][WaveNext]_vars

\* the spectrum is downsampled: more points than the target
Downsampling == durationSecs > 0 /\ 2 * Len(spectrum) > targetHalves

\* bucket b (from 0) of the output covers time t; the last bucket covers durationSecs
Covers(b, t) ==
    /\ b * durationSecs <= t * Len(downsampled)
    /\ \/ t * Len(downsampled) < (b + 1) * durationSecs
       \/ b = Len(downsampled) - 1 /\ t = durationSecs

Peak(values) == IF values = {} THEN 0 ELSE CHOOSE m \in values : \A n \in values : n <= m

\* C22: when a time-ordered spectrum whose points lie in [0, durationSecs] is
\* downsampled, every point's music value is at most the value of the bucket
\* covering its time (no point is dropped, on a boundary or at durationSecs),
\* and the largest output value is the largest input value.
C22_DownsamplingPreservesPeaks ==
    (Downsampling /\ \A i \in 1..Len(spectrum) : spectrum[i].t <= durationSecs) =>
        /\ \A i \in 1..Len(spectrum) :
               \E b \in 0..Len(downsampled) - 1 :
                   /\ Covers(b, spectrum[i].t)
                   /\ spectrum[i].music <= downsampled[b + 1].value
        /\ Peak({ downsampled[b].value : b \in 1..Len(downsampled) })
               = Peak({ spectrum[i].music : i \in 1..Len(spectrum) })

\* the smaller of two numbers
Least(a, b) == IF a <= b THEN a ELSE b

\* the input values unchanged and in order
PassedThrough ==
    /\ Len(downsampled) = Len(spectrum)
    /\ \A i \in 1..Len(spectrum) :
           downsampled[i] = Drawn(spectrum[i].t, durationSecs, spectrum[i].music)

\* C23 as claimed: for a non-empty input and durationSecs > 0 the output has
\* exactly min(N, inputLength) points for every target N (N = targetHalves / 2),
\* the input unchanged when inputLength <= N; for an empty input or
\* durationSecs <= 0 the output is empty.
C23_LengthIsMinOfTargetAndInput ==
    /\ (spectrum # <<>> /\ durationSecs > 0) =>
           /\ 2 * Len(downsampled) = Least(targetHalves, 2 * Len(spectrum))
           /\ 2 * Len(spectrum) <= targetHalves => PassedThrough
    /\ (spectrum = <<>> \/ durationSecs <= 0) => downsampled = <<>>

\* C23 as the code has it: for a non-empty input and durationSecs > 0 the output
\* has exactly min(max(1, floor(N)), inputLength) points, which is
\* min(N, inputLength) for every whole N >= 1; the input is returned unchanged
\* and in order when inputLength <= N; for an empty input or durationSecs <= 0
\* the output is empty.
C23_LengthIsMinOfWholeTargetAndInput ==
    /\ (spectrum # <<>> /\ durationSecs > 0) =>
           /\ Len(downsampled) = Least(bucketCount(targetHalves), Len(spectrum))
           /\ (targetHalves >= 2 /\ targetHalves % 2 = 0) =>
                  2 * Len(downsampled) = Least(targetHalves, 2 * Len(spectrum))
           /\ 2 * Len(spectrum) <= targetHalves => PassedThrough
    /\ (spectrum = <<>> \/ durationSecs <= 0) => downsampled = <<>>

\* C23 witness: three points were downsampled to a target of one and a half.
C23_Witness ==
    /\ Len(spectrum) = 3 /\ durationSecs > 0 /\ targetHalves = 3
    /\ Len(downsampled) = 1

\* ======================================================================
\* Zoom controls: DetectionTimeline, DetectionFilmstrip, the filmstrip of the
\* full-width waveform component, and the scrolling waveform
\* ======================================================================
\* widest displayed thumbnail and widest container, in px
MaxThumbW == 2
MaxOuterWidth == 2

Views == {"timeline", "filmstrip", "waveformFilmstrip", "waveform"}

\* let zoomLevel = $state(2) in DetectionTimeline, $state(1) in the others
initialZoom(v) == IF v = "timeline" THEN 2 ELSE 1

\* Math.min(16, zoomLevel * 2) in the scrolling waveform, Math.min(8, ...) in the others
maxZoom(v) == IF v = "waveform" THEN 16 ELSE 8

\* waveformWidth = outerWidth * zoomLevel;
\* timelineWidth / filmstripWidth = trickplay.thumbnail_count * thumbDisplayW * zoomLevel
derivedWidth(v, sz, z) ==
    IF v = "waveform"
    THEN sz.outerWidth * z
    ELSE sz.thumbnail_count * sz.thumbDisplayW * z

ZoomInit ==
    /\ CoreIdle /\ WaveIdle /\ LaneIdle /\ RatingIdle /\ OverlayIdle
    /\ view \in Views
    /\ sizes \in [thumbnail_count : 0..MaxThumbs, thumbDisplayW : 1..MaxThumbW,
                  outerWidth : 0..MaxOuterWidth]
    /\ zoomLevel = initialZoom(view)
    /\ totalWidth = derivedWidth(view, sizes, zoomLevel)

\* variant of the + button below without its disabled attribute and Math.min
zoomIn_unclamped ==
    /\ zoomLevel < 2 * maxZoom(view)
    /\ zoomLevel' = zoomLevel * 2
    /\ totalWidth' = derivedWidth(view, sizes, zoomLevel')
    /\ UNCHANGED <<view, sizes>>
    /\ inZoom

\* the + button: disabled={zoomLevel >= 8};
\* onclick={() => { zoomLevel = Math.min(8, zoomLevel * 2); }} (16 in the scrolling waveform)
zoomIn ==
    /\ ~(zoomLevel >= maxZoom(view))
    /\ zoomLevel' = IF zoomLevel * 2 > maxZoom(view) THEN maxZoom(view) ELSE zoomLevel * 2
    /\ totalWidth' = derivedWidth(view, sizes, zoomLevel')
    /\ UNCHANGED <<view, sizes>>
    /\ inZoom

\* the - button: disabled={zoomLevel <= 1};
\* onclick={() => { zoomLevel = Math.max(1, zoomLevel / 2); }}
\* (zoomLevel / 2 is whole here: an odd level other than 1 is never reached)
zoomOut ==
    /\ ~(zoomLevel <= 1)
    /\ zoomLevel' = IF zoomLevel \div 2 < 1 THEN 1 ELSE zoomLevel \div 2
    /\ totalWidth' = derivedWidth(view, sizes, zoomLevel')
    /\ UNCHANGED <<view, sizes>>
    /\ inZoom

\* the scrolling waveform's ResizeObserver: outerWidth = entry.contentRect.width
outerResized(w) ==
    /\ view = "waveform" /\ w # sizes.outerWidth
    /\ sizes' = [sizes EXCEPT !.outerWidth = w]
    /\ totalWidth' = derivedWidth(view, sizes', zoomLevel)
    /\ UNCHANGED <<view, zoomLevel>>
    /\ inZoom

ZoomNext ==
    \/ zoomIn
    \/ zoomOut
    \/ \E w \in 0..MaxOuterWidth : outerResized(w)

SpecZoom == ZoomInit /\ [][ZoomNext]_vars

PowersOfTwo == {1, 2, 4, 8, 16}

\* C24: the zoom level is always a power of two in [1, 8] ([1, 16] on the
\* scrolling waveform); no step takes it above the maximum or below 1, a step
\* doubles or halves it, and the total lane width is always
\* thumbnail_count * thumbDisplayW * zoom (outerWidth * zoom for the waveform).
C24_ZoomIsBoundedPowerOfTwo ==
    /\ [](view # "none" =>
            /\ zoomLevel \in PowersOfTwo
            /\ zoomLevel >= 1
            /\ zoomLevel <= (IF view = "waveform" THEN 16 ELSE 8)
            /\ totalWidth = (IF view = "waveform"
                             THEN sizes.outerWidth * zoomLevel
                             ELSE sizes.thumbnail_count * sizes.thumbDisplayW * zoomLevel))
    /\ [][ /\ zoomLevel' \in {zoomLevel, 2 * zoomLevel} \cup { z \in PowersOfTwo : 2 * z = zoomLevel }
           /\ zoomLevel = (IF view = "waveform" THEN 16 ELSE 8) => zoomLevel' <= zoomLevel
           /\ zoomLevel = 1 => zoomLevel' >= 1 ]_vars

\* C24 witness: the scrolling waveform zoomed in to 16x, its width 16 containers.
C24_Witness ==
    /\ view = "waveform" /\ zoomLevel = 16
    /\ sizes.outerWidth > 0 /\ totalWidth = 16 * sizes.outerWidth

\* ======================================================================
\* DetectionTimeline: the chapter lane
\* ======================================================================
\* chapters of a video
MaxLaneChapters == 3

\* a chapter as the lane reads it: end_ticks is <<>> for null
LaneChapter(at, end) == [start_ticks |-> at, end_ticks |-> end]

\* chapters do not end before they start
LaneChapters ==
    { c \in [start_ticks : 0..MaxStamp,
             end_ticks : {<<>>} \cup { <<n>> : n \in 0..MaxStamp }] :
          c.end_ticks = <<>> \/ c.end_ticks[1] >= c.start_ticks }

\* the detect page passes sortedChapters
LaneLists ==
    UNION { { cs \in [1..n -> LaneChapters] : IsOrderedByStart(cs) } : n \in 0..MaxLaneChapters }

\* where a segment is drawn to: ticksToX of a tick, or timelineWidth
ToTick(n) == [to |-> "ticksToX", ticks |-> n]
ToTimelineWidth == [to |-> "timelineWidth", ticks |-> 0]

\* endX = chapter.end_ticks ? ticksToX(chapter.end_ticks)
\*      : (i < chapters.length - 1 ? ticksToX(chapters[i + 1].start_ticks) : timelineWidth)
\* (a conditional on a number is false for null and for 0)
segmentEnd(cs, i) ==
    IF cs[i].end_ticks # <<>> /\ cs[i].end_ticks[1] # 0
    THEN ToTick(cs[i].end_ticks[1])
    ELSE IF i < Len(cs)
    THEN ToTick(cs[i + 1].start_ticks)
    ELSE ToTimelineWidth

\* {#each chapters as chapter, i}
segments(cs) == [i \in 1..Len(cs) |-> segmentEnd(cs, i)]

LaneInit ==
    /\ CoreIdle /\ WaveIdle /\ ZoomIdle /\ RatingIdle /\ OverlayIdle
    /\ laneChapters \in LaneLists
    /\ laneSegments = segments(laneChapters)

\* a chapter was created and the list reloaded: the host passes the new sortedChapters
chapterCreated(c) ==
    /\ Len(laneChapters) < MaxLaneChapters
    /\ laneChapters' = SortByStart(Append(laneChapters, c))
    /\ laneSegments' = segments(laneChapters')
    /\ inLane

\* a chapter was deleted and the list reloaded
chapterDeleted(i) ==
    /\ i \in 1..Len(laneChapters)
    /\ laneChapters' = SubSeq(laneChapters, 1, i - 1) \o SubSeq(laneChapters, i + 1, Len(laneChapters))
    /\ laneSegments' = segments(laneChapters')
    /\ inLane

LaneNext ==
    \/ \E c \in LaneChapters : chapterCreated(c)
    \/ \E i \in 1..MaxLaneChapters : chapterDeleted(i)

SpecLane == LaneInit /\ [][LaneNext]_vars

\* C25: a chapter's segment ends at its own end_ticks when that is set (any
\* non-null value), otherwise at the start_ticks of the next chapter in
\* start_ticks order, otherwise at the timeline end.
C25_SegmentEndsAtOwnEndElseNextStart ==
    /\ Len(laneSegments) = Len(laneChapters)
    /\ \A i \in 1..Len(laneChapters) :
           laneSegments[i] =
               IF laneChapters[i].end_ticks # <<>>
               THEN ToTick(laneChapters[i].end_ticks[1])
               ELSE IF i < Len(laneChapters)
               THEN ToTick(laneChapters[i + 1].start_ticks)
               ELSE ToTimelineWidth

\* ======================================================================
\* ratingColor
\* ======================================================================
\* the top of the rating scale, in tenths (ratings are on a 0-10 scale)
MaxRating == 100

\* variant of the function below with exclusive thresholds
ratingColor_exclusive(r) ==
    IF r > 90 THEN "#1a9a32"
    ELSE IF r > 80 THEN "#2eab3f"
    ELSE IF r > 70 THEN "#6dbf28"
    ELSE IF r > 60 THEN "#b5c410"
    ELSE IF r > 50 THEN "#d4a017"
    ELSE IF r > 40 THEN "#d97b0e"
    ELSE IF r > 30 THEN "#cf5210"
    ELSE "#c42b16"

\* export function ratingColor(rating: number): string, the rating in tenths
ratingColor(r) ==
    IF r >= 90 THEN "#1a9a32"
    ELSE IF r >= 80 THEN "#2eab3f"
    ELSE IF r >= 70 THEN "#6dbf28"
    ELSE IF r >= 60 THEN "#b5c410"
    ELSE IF r >= 50 THEN "#d4a017"
    ELSE IF r >= 40 THEN "#d97b0e"
    ELSE IF r >= 30 THEN "#cf5210"
    ELSE "#c42b16"

\* a match with a rating, not rendered yet
RatingInit ==
    /\ CoreIdle /\ WaveIdle /\ ZoomIdle /\ LaneIdle /\ OverlayIdle
    /\ rating \in 0..MaxRating
    /\ colour = ""

\* style="color: {ratingColor(match.rating)}"
renderRating ==
    /\ colour = ""
    /\ colour' = ratingColor(rating)
    /\ UNCHANGED rating
    /\ inRating

\* the list shows another match
ratingChanged(r) ==
    /\ r # rating
    /\ rating' = r
    /\ colour' = IF colour = "" THEN "" ELSE ratingColor(r)
    /\ inRating

RatingNext ==
    \/ renderRating
    \/ \E r \in 0..MaxRating : ratingChanged(r)

SpecRating == RatingInit /\ [][RatingNext]_vars

\* C26: ratingColor maps every rating to one of eight fixed colours by
\* lower-inclusive thresholds: >= 9 #1a9a32, [8,9) #2eab3f, [7,8) #6dbf28,
\* [6,7) #b5c410, [5,6) #d4a017, [4,5) #d97b0e, [3,4) #cf5210, below 3 #c42b16.
C26_RatingColorThresholds ==
    colour # "" =>
        /\ rating >= 90 => colour = "#1a9a32"
        /\ (rating >= 80 /\ rating < 90) => colour = "#2eab3f"
        /\ (rating >= 70 /\ rating < 80) => colour = "#6dbf28"
        /\ (rating >= 60 /\ rating < 70) => colour = "#b5c410"
        /\ (rating >= 50 /\ rating < 60) => colour = "#d4a017"
        /\ (rating >= 40 /\ rating < 50) => colour = "#d97b0e"
        /\ (rating >= 30 /\ rating < 40) => colour = "#cf5210"
        /\ rating < 30 => colour = "#c42b16"

\* C26 witness: a rating of exactly 8 was rendered in the colour of [8, 9).
C26_Witness == rating = 80 /\ colour = "#2eab3f"

\* ======================================================================
\* DetectionFilmstrip on the player page: marker popover and the host's overlay
\* ======================================================================
\* getAnalysisResults responses explored in one behaviour
MaxFetches == 2
\* detections per phase in one AnalysisResults payload, and their timestamps
MaxFound == 1
MaxFoundStamp == 2
\* onAcceptChapter calls explored in one behaviour
MaxOverlayAccepts == 1

\* a Detection object of the payload received as response number run (a
\* response is parsed into fresh objects: equal fields, another identity)
FoundIn(run, type) ==
    [run : {run}, type : {type}, timestamp_ticks : 1..MaxFoundStamp]

\* results.visual / results.audio: detections of increasing timestamps
FoundLists(run, type) ==
    { ds \in UNION { [1..n -> FoundIn(run, type)] : n \in 0..MaxFound } :
        \A i \in 1..Len(ds) : \A j \in (i + 1)..Len(ds) :
            ds[i].timestamp_ticks < ds[j].timestamp_ticks }

\* the AnalysisResults payloads response number run can carry
Payloads(run) ==
    [visual : FoundLists(run, "scene_change"), audio : FoundLists(run, "bell")]

\* Array.prototype.sort is stable: d goes behind the entries not later than it
InsertByStamp(sorted, d) ==
    LET before == SelectSeq(sorted, LAMBDA x : x.timestamp_ticks <= d.timestamp_ticks)
        after == SelectSeq(sorted, LAMBDA x : x.timestamp_ticks > d.timestamp_ticks)
    IN  before \o <<d>> \o after

RECURSIVE sortByStamp(_)
sortByStamp(ds) ==
    IF ds = <<>> THEN <<>>
    ELSE InsertByStamp(sortByStamp(SubSeq(ds, 1, Len(ds) - 1)), ds[Len(ds)])

\* allDetections = results ? [...results.visual, ...results.audio].sort(...) : []
allDetections(res) ==
    IF res = <<>> THEN <<>> ELSE sortByStamp(res[1].visual \o res[1].audio)

\* $effect: if (allDetections.length > 0) onDetectionsReady?.(allDetections),
\* with the player page's onDetectionsReady={(d) => { detections = d; }}
notifyParent(res) ==
    hostDetections' =
        IF Len(allDetections(res)) > 0 THEN allDetections(res) ELSE hostDetections

\* {#if status.status === 'completed' && results}: the filmstrip, its markers
\* and the popover are rendered
FilmstripShown == fsStatus = "completed" /\ fsResults # <<>>

\* a start button is rendered (branches none, completed and failed)
StartShown == fsStatus \in {"none", "completed", "failed"}

OverlayInit ==
    /\ CoreIdle /\ WaveIdle /\ ZoomIdle /\ LaneIdle /\ RatingIdle
    /\ OverlayIdle

\* onMount(async () => { try { status = await getAnalysisStatus(videoId); ...
fs_onMount ==
    /\ fsAwait = "unmounted"
    /\ fsAwait' = "mountStatus"
    /\ UNCHANGED <<fsStatus, fsResults, fsSelected, fsFetches, fsAccepted, hostDetections>>
    /\ inOverlay

\* ... status = <response>; if completed: results = await getAnalysisResults;
\*     else if startsWith('running'): startPolling()       (of onMount)
\* status = <response>; if completed: stopPolling(); results = await ...;
\*     else if failed or none: stopPolling()               (of the interval callback)
fs_statusResolved(s) ==
    /\ fsAwait \in {"mountStatus", "pollStatus"}
    /\ fsStatus' = s
    /\ fsAwait' = IF s = "completed" THEN "results" ELSE "idle"
    /\ UNCHANGED <<fsResults, fsSelected, fsFetches, fsAccepted, hostDetections>>
    /\ inOverlay

\* ... results = <response of getAnalysisResults>; allDetections is re-derived
\* and the $effect runs
fs_resultsResolved(res) ==
    /\ fsAwait = "results"
    /\ fsFetches < MaxFetches
    /\ fsFetches' = fsFetches + 1
    /\ fsResults' = <<res>>
    /\ notifyParent(<<res>>)
    /\ fsAwait' = "idle"
    /\ UNCHANGED <<fsStatus, fsSelected, fsAccepted>>
    /\ inOverlay

\* setInterval callback of startPolling (a timer runs while the status is
\* running_*): status = await getAnalysisStatus(videoId)
fs_pollTick ==
    /\ fsAwait = "idle"
    /\ fsStatus \in Running
    /\ fsAwait' = "pollStatus"
    /\ UNCHANGED <<fsStatus, fsResults, fsSelected, fsFetches, fsAccepted, hostDetections>>
    /\ inOverlay

\* handleStartAnalysis(phase): showAnalysisMenu = false; await startAnalysis(videoId, phase)
fs_handleStartAnalysis ==
    /\ fsAwait = "idle"
    /\ StartShown
    /\ fsFetches < MaxFetches
    /\ fsAwait' = "start"
    /\ UNCHANGED <<fsStatus, fsResults, fsSelected, fsFetches, fsAccepted, hostDetections>>
    /\ inOverlay

\* ... status = { status: phase === 'audio' ? 'running_audio' : 'running_visual' };
\*     startPolling()
fs_startResolved(l) ==
    /\ fsAwait = "start"
    /\ fsStatus' = l
    /\ fsAwait' = "idle"
    /\ UNCHANGED <<fsResults, fsSelected, fsFetches, fsAccepted, hostDetections>>
    /\ inOverlay

\* handleClear: await clearAnalysis(videoId)   (the button of the completed branch)
fs_handleClear ==
    /\ fsAwait = "idle"
    /\ fsStatus = "completed"
    /\ fsAwait' = "clear"
    /\ UNCHANGED <<fsStatus, fsResults, fsSelected, fsFetches, fsAccepted, hostDetections>>
    /\ inOverlay

\* ... status = { status: 'none' }; results = null; selectedDetection = null;
\* allDetections is re-derived and the $effect runs
fs_clearResolved ==
    /\ fsAwait = "clear"
    /\ fsStatus' = "none"
    /\ fsResults' = <<>>
    /\ fsSelected' = <<>>
    /\ notifyParent(<<>>)
    /\ fsAwait' = "idle"
    /\ UNCHANGED <<fsFetches, fsAccepted>>
    /\ inOverlay

\* handleMarkerClick(detection, e) of a marker of {#each allDetections}:
\* selectedDetection = selectedDetection === detection ? null : detection
fs_handleMarkerClick(i) ==
    /\ FilmstripShown
    /\ i \in 1..Len(allDetections(fsResults))
    /\ fsSelected' =
           IF fsSelected = <<allDetections(fsResults)[i]>>
           THEN <<>> ELSE <<allDetections(fsResults)[i]>>
    /\ UNCHANGED <<fsAwait, fsStatus, fsResults, fsFetches, fsAccepted, hostDetections>>
    /\ inOverlay

\* handleAccept (Accept button of the popover): if (!selectedDetection) return;
\* onAcceptChapter(selectedDetection.timestamp_ticks, ...); selectedDetection = null
\* (the assignment is skipped when the host's callback throws)
fs_handleAccept ==
    /\ FilmstripShown
    /\ fsSelected # <<>>
    /\ Len(fsAccepted) < MaxOverlayAccepts
    /\ fsAccepted' = Append(fsAccepted, fsSelected[1])
    /\ fsSelected' \in {<<>>, fsSelected}
    /\ UNCHANGED <<fsAwait, fsStatus, fsResults, fsFetches, hostDetections>>
    /\ inOverlay

\* Dismiss button of the popover: selectedDetection = null
fs_dismiss ==
    /\ FilmstripShown
    /\ fsSelected # <<>>
    /\ fsSelected' = <<>>
    /\ UNCHANGED <<fsAwait, fsStatus, fsResults, fsFetches, fsAccepted, hostDetections>>
    /\ inOverlay

OverlayNext ==
    \/ fs_onMount
    \/ \E s \in Statuses : fs_statusResolved(s)
    \/ \E res \in Payloads(fsFetches + 1) : fs_resultsResolved(res)
    \/ fs_pollTick
    \/ fs_handleStartAnalysis
    \/ \E l \in Running : fs_startResolved(l)
    \/ fs_handleClear
    \/ fs_clearResolved
    \/ \E i \in 1..(2 * MaxFound) : fs_handleMarkerClick(i)
    \/ fs_handleAccept
    \/ fs_dismiss

SpecOverlay == OverlayInit /\ [][OverlayNext]_vars

\* the step ran the continuation of a successful clearAnalysis request
ClearSucceeded == fsAwait = "clear" /\ fsAwait' = "idle"

\* C28: after a successful clear the detections the player page holds for its
\* player-bar overlay are empty.
C28_ClearEmptiesHostDetections ==
    [][ ClearSucceeded => hostDetections' = <<>> ]_vars

\* d is an element of the array ds (the same object)
Among(ds, d) == \E i \in 1..Len(ds) : ds[i] = d

\* C30: the selected detection of the filmstrip is always null or an element
\* of the current merged detection list, and accept passes only a detection of
\* the current list to onAcceptChapter.
C30_SelectionIsCurrent ==
    /\ [](fsSelected = <<>> \/ Among(allDetections(fsResults), fsSelected[1]))
    /\ [][ Len(fsAccepted') > Len(fsAccepted) =>
               Among(allDetections(fsResults), fsAccepted'[Len(fsAccepted')]) ]_vars

\* ======================================================================
\* The poller again: liveness of a running status, and the on-mount check
\* ======================================================================
\* C27: whenever the displayed status is running_visual or running_audio,
\* polling is live: a polling timer is active, or a start or poll request is in
\* flight (while the component is mounted: a destroyed one displays nothing).
C27_RunningStatusIsPolled ==
    (Alive /\ status \in Running) =>
        \/ timers # {}
        \/ \E r \in InFlight : r.kind \in {"start", "pollStatus", "pollResults"}

\* the step ran the continuation of the on-mount status check with status s
\* (every such step settles the status request the mount sent)
MountStatusIs(s) == status' = s /\ \E r \in InFlight : onMount_statusResolved(r, s)
\* ... or its catch block
MountStatusThrew == status' = status /\ \E r \in InFlight : onMount_statusRejected(r)

\* the step created a polling timer and made it the current one
TimerStarted == pollInterval' \notin timers /\ timers' = timers \cup {pollInterval'}

\* C29 as claimed: the job status is queried once, on mount; on completed the
\* results are requested once and no timer is started; on running_* a polling
\* timer is started; on none or failed, or when the query throws, no timer is
\* started and no results are requested, and on a throw the status stays none.
C29_MountResumes ==
    [][ /\ SentOne("mountStatus") <=> (~mounted /\ mounted')
        /\ SettledOne("mountStatus") =>
            /\ MountStatusIs("completed") =>
                   (SentOne("mountResults") /\ timers' = timers
                    /\ pollInterval' = pollInterval)
            /\ (\E s \in Running : MountStatusIs(s)) =>
                   (TimerStarted /\ ~SentOne("mountResults"))
            /\ (MountStatusIs("none") \/ MountStatusIs("failed") \/ MountStatusThrew) =>
                   (timers' = timers /\ pollInterval' = pollInterval
                    /\ ~SentOne("mountResults") /\ results' = results)
            /\ MountStatusThrew => status' = "none" ]_vars

\* C29 as the code has it: as above, but on running_* a polling timer is
\* started unless one is already active (a timer is active afterwards), and on
\* a throw the status is left as it was (none unless a start was requested
\* before the query failed).
C29_MountResumesUnlessStarted ==
    [][ /\ SentOne("mountStatus") <=> (~mounted /\ mounted')
        /\ SettledOne("mountStatus") =>
            /\ MountStatusIs("completed") =>
                   (SentOne("mountResults") /\ timers' = timers
                    /\ pollInterval' = pollInterval)
            /\ (\E s \in Running : MountStatusIs(s)) =>
                   /\ IF pollInterval = NULL
                      THEN TimerStarted
                      ELSE timers' = timers /\ pollInterval' = pollInterval
                   /\ pollInterval' # NULL
                   /\ ~SentOne("mountResults")
            /\ (MountStatusIs("none") \/ MountStatusIs("failed") \/ MountStatusThrew) =>
                   (timers' = timers /\ pollInterval' = pollInterval
                    /\ ~SentOne("mountResults") /\ results' = results)
            /\ MountStatusThrew =>
                   (status' = status /\ (starts = 0 => status' = "none")) ]_vars

\* C29 witness: the on-mount check found a running job and its timer is the
\* only one; no results were requested.
C29_Witness ==
    /\ mounted /\ starts = 0 /\ status \in Running
    /\ pollInterval = 1 /\ timers = {1} /\ Awaiting("mountStatus") = 0
    /\ Awaiting("mountResults") = 0 /\ results = NULL /\ ticks = 0

====
